---- MODULE Spec2Model ----
(***************************************************************************)
(* RhythmCrew song-request server (server.py).                             *)
(*                                                                         *)
(* The state is the SQLite database rhythmcrew.db (tables songs, queue,    *)
(* users, history), the module globals clients (a dict keyed by websocket) *)
(* and admin_clients (a set), the websockets server server_instance, and   *)
(* one handler coroutine per connection.                                   *)
(* asyncio runs the coroutines cooperatively: the code between two awaits  *)
(* is one atomic step.  The only awaits inside handle_message are the      *)
(* websocket sends, so every action below runs from one await to the next. *)
(***************************************************************************)
EXTENDS Integers, Sequences, FiniteSets, TLC

\* ---- bounds of the model ------------------------------------------------
NumConns == 2          \* websocket connections that may ever be opened
MaxQueue == 2          \* rows the queue table holds when the server starts
MaxVotes == 1          \* cap on a vote counter
MaxUpload == 1         \* longest song list in an upload_songs payload
MaxTime == 1           \* CURRENT_TIMESTAMP runs from 0 to MaxTime
MaxLate == 1           \* messages handled between the signal and the closes
MaxRecords == 3        \* longest song list uploaded under UploadSpec
MaxPlays == 16         \* rows the queue table holds at the start of HistorySpec

\* ---- program constants --------------------------------------------------
HistoryLimit == 15     \* LIMIT 15 of the history query

Sockets == 1 .. NumConns
NoSock == CHOOSE n \in 0 .. NumConns : n \notin Sockets   \* no websocket
\* a field the JSON message does not carry: no rowid
Absent == CHOOSE n \in -1 .. 0 : n \notin 0 .. MaxQueue
UserIds == {"u1"}
SongData == {"A", "B"} \* the column values (name, artist, ...) of one song
Uploadable == {"B"}    \* the song records that occur in upload_songs payloads
Malformed == "malformed" \* a song record lacking one of the seven keys
VoteTypes == {"up", "down", "sideways", "absent"}
SortTypes == {"oldest", "newest", "upvotes", "random", "sideways", "absent"}

VARIABLES
    songs,          \* table songs: sequence of song data, rowid = index
    queue,          \* table queue: sequence of rows in rowid order
    history,        \* table history: sequence of rows in rowid order
    clients,        \* dict clients: entry array, each Tomb or a record
    admin_clients,  \* set admin_clients
    sock,           \* per websocket: "off", "new", "open", "closed" (peer gone)
    pc,             \* per handler: "none", "recv", "bcast", "done"
    bc,             \* per handler: locals of its suspended broadcast_state
    sent,           \* the sends attempted by the last step
    fin,            \* the broadcast_state call the last step ended, if any
    ev,             \* the event the last step handled, if any
    server_instance, \* the websockets server: "serving" or "closed"
    view,           \* per websocket: the last state message delivered to it
    notified,       \* the websockets a server_shutdown notice was sent to
    late,           \* the messages handled since the termination signal
    ping            \* per handler, its ping task: "none", "running", "ended"

dbvars == <<songs, queue, history>>
vars == <<songs, queue, history, clients, admin_clients, sock, pc,
          bc, sent, fin, ev, server_instance, view, notified, late, ping>>

\* ---- small helpers ------------------------------------------------------
Range(s) == {s[i] : i \in 1 .. Len(s)}

RECURSIVE SeqsUpTo(_, _)
SeqsUpTo(S, n) ==
    IF n = 0 THEN {<<>>}
    ELSE LET shorter == SeqsUpTo(S, n - 1)
         IN shorter \cup {Append(s, x) : s \in {t \in shorter : Len(t) = n - 1}, x \in S}

\* ---- the dict clients ---------------------------------------------------
\* A CPython dict keeps its entries in insertion order; del leaves a dummy
\* entry behind and a new key is appended at the end.  (The entry array is
\* compacted only when a sixth key is inserted, which NumConns keeps away.)
Tomb == [ws |-> NoSock, user_id |-> "", is_admin |-> FALSE]
Keys(d) == {d[i].ws : i \in 1 .. Len(d)} \ {NoSock}
Used(d) == Cardinality(Keys(d))
Slot(d, k) == CHOOSE i \in 1 .. Len(d) : d[i].ws = k
Info(d, k) == d[Slot(d, k)]

\* clients[websocket] = {...}
DictSet(d, k, user_id, is_admin) ==
    LET e == [ws |-> k, user_id |-> user_id, is_admin |-> is_admin]
    IN IF k \in Keys(d) THEN [d EXCEPT ![Slot(d, k)] = e] ELSE Append(d, e)

\* del clients[websocket]
DictDel(d, k) == [d EXCEPT ![Slot(d, k)] = Tomb]

\* iter(clients): di_used, di_pos, len of the dict key iterator
NewIter(d) == [used |-> Used(d), pos |-> 0, len |-> Used(d)]

RECURSIVE SkipTombs(_, _)
SkipTombs(d, i) ==
    IF i <= Len(d) /\ d[i] = Tomb THEN SkipTombs(d, i + 1) ELSE i

\* next(iterator): the key, StopIteration, or the RuntimeError CPython raises
\* when the dict was modified since the iterator was made
IterNext(d, it) ==
    LET i == SkipTombs(d, it.pos + 1)
    IN IF it.used # Used(d) THEN [kind |-> "error", key |-> NoSock, it |-> it]
       ELSE IF i > Len(d) THEN [kind |-> "stop", key |-> NoSock, it |-> it]
       ELSE IF it.len = 0 THEN [kind |-> "error", key |-> NoSock, it |-> it]
       ELSE [kind |-> "key", key |-> d[i].ws,
             it |-> [it EXCEPT !.pos = i, !.len = it.len - 1]]

\* ---- rendering the state message ---------------------------------------
\* (mutant) the tie broken by the newest request, as sort_queue 'newest' reads
BeforeNewestFirst(a, b) ==
    \/ a.upvotes > b.upvotes
    \/ a.upvotes = b.upvotes /\ a.requested_at > b.requested_at

\* ORDER BY q.upvotes DESC, q.requested_at ASC: does row a sort before row b
Before(a, b) ==
    \/ a.upvotes > b.upvotes
    \/ a.upvotes = b.upvotes /\ a.requested_at < b.requested_at

\* The sorter: rows are read in rowid order and rows with equal keys keep it.
RECURSIVE InsertRow(_, _)
InsertRow(s, r) ==
    IF s = <<>> THEN <<r>>
    ELSE IF Before(r, Head(s)) THEN <<r>> \o s
    ELSE <<Head(s)>> \o InsertRow(Tail(s), r)

RECURSIVE SortRows(_)
SortRows(s) ==
    IF s = <<>> THEN <<>>
    ELSE InsertRow(SortRows(SubSeq(s, 1, Len(s) - 1)), s[Len(s)])

\* SELECT ... FROM queue q JOIN songs s ON q.song_id = s.id
\*              LEFT JOIN users u ON q.user_id = u.id ORDER BY ...
\* The LEFT JOIN keeps every row and adds the requester's name and avatar,
\* columns that are left out here with the users table they come from.
RenderQueue(s, q) ==
    LET joined == SelectSeq(q, LAMBDA r : r.song_id \in 1 .. Len(s))
        sorted == SortRows(joined)
    IN [i \in 1 .. Len(sorted) |->
            [id |-> sorted[i].id, name |-> s[sorted[i].song_id],
             upvotes |-> sorted[i].upvotes, downvotes |-> sorted[i].downvotes,
             requested_at |-> sorted[i].requested_at,
             user_id |-> sorted[i].user_id]]

\* ORDER BY h.played_at DESC
PlayedBefore(a, b) == a.played_at > b.played_at

RECURSIVE InsertPlay(_, _)
InsertPlay(s, r) ==
    IF s = <<>> THEN <<r>>
    ELSE IF PlayedBefore(r, Head(s)) THEN <<r>> \o s
    ELSE <<Head(s)>> \o InsertPlay(Tail(s), r)

RECURSIVE SortPlays(_)
SortPlays(s) ==
    IF s = <<>> THEN <<>>
    ELSE InsertPlay(SortPlays(SubSeq(s, 1, Len(s) - 1)), s[Len(s)])

\* SELECT s.name, s.artist FROM history h JOIN songs s ON h.song_id = s.id
\*   ORDER BY h.played_at DESC LIMIT 15
RenderHistory(s, h) ==
    LET joined == SelectSeq(h, LAMBDA r : r.song_id \in 1 .. Len(s))
        sorted == SortPlays(joined)
        n == IF Len(sorted) < HistoryLimit THEN Len(sorted) ELSE HistoryLimit
    IN [i \in 1 .. n |-> [name |-> s[sorted[i].song_id]]]

\* SELECT * FROM songs
RenderSongs(s) == [i \in 1 .. Len(s) |-> [id |-> i, name |-> s[i]]]

\* json.dumps({'action': 'state', 'data': state})
StateMsg(s, q, h) ==
    [action |-> "state", songs |-> RenderSongs(s), queue |-> RenderQueue(s, q),
     history |-> RenderHistory(s, h)]

NoMsg == [action |-> "none", songs |-> <<>>, queue |-> <<>>, history |-> <<>>]
ArtistImagesMsg ==
    [action |-> "artist_images", songs |-> <<>>, queue |-> <<>>, history |-> <<>>]
\* json.dumps({'action': 'error', 'message': ...})
ErrorMsg ==
    [action |-> "error", songs |-> <<>>, queue |-> <<>>, history |-> <<>>]

\* await websocket.send(message): delivered unless the peer is gone
Send(k, m) == [to |-> k, ok |-> sock[k] = "open", msg |-> m]

\* what the clients hold after the sends s: a delivered state message replaces
\* the one the client had
Views(v, s) ==
    [k \in Sockets |->
        IF \E m \in s : m.to = k /\ m.ok /\ m.msg.action = "state"
        THEN (CHOOSE m \in s : m.to = k /\ m.ok /\ m.msg.action = "state").msg
        ELSE v[k]]

\* the step attempts the sends s; none of them is a server_shutdown notice,
\* and no ping task is started or cancelled
Sends(s) ==
    /\ sent' = s
    /\ view' = Views(view, s)
    /\ UNCHANGED <<notified, ping>>

\* ---- broadcast_state ----------------------------------------------------
NoIter == [used |-> 0, pos |-> 0, len |-> 0]
\* locals of a broadcast_state call: message, the iterator of `for client in
\* clients`, disconnected_clients; and, for the properties, the keys of
\* clients when the call began, the recipients the message was delivered to,
\* and whether another coroutine changed the keys of clients meanwhile
IdleBc ==
    [msg |-> NoMsg, it |-> NoIter, failed |-> <<>>, delivered |-> {},
     start |-> {}, touched |-> FALSE]
NoFin ==
    [by |-> NoSock, error |-> FALSE, failed |-> <<>>,
     delivered |-> {}, start |-> {}, touched |-> FALSE]
NoEv ==
    [conn |-> NoSock, action |-> "none", id |-> 0, str |-> "", flag |-> FALSE,
     songs |-> <<>>]

Ended(c, b, err) ==
    [by |-> c, error |-> err, failed |-> b.failed,
     delivered |-> b.delivered, start |-> b.start, touched |-> b.touched]

\* (mutant) the failed recipients stay in clients
EvictNobody(failed, d, adm) == [clients |-> d, admin |-> adm]

\* for client in disconnected_clients: if client in clients: ... del
RECURSIVE Evict(_, _, _)
Evict(failed, d, adm) ==
    IF failed = <<>> THEN [clients |-> d, admin |-> adm]
    ELSE LET k == Head(failed)
         IN IF k \in Keys(d)
            THEN Evict(Tail(failed), DictDel(d, k),
                       IF Info(d, k).is_admin THEN adm \ {k} ELSE adm)
            ELSE Evict(Tail(failed), d, adm)

\* One turn of `for client in clients`, from the loop head to the next await
\* (or to the end of broadcast_state), with the locals b.
BroadcastTurn(c, b) ==
    LET r == IterNext(clients, b.it)
    IN IF r.kind = "error"
       \* RuntimeError leaves broadcast_state; handle_message logs it
       THEN [pc |-> "recv", bc |-> IdleBc, clients |-> clients,
             admin |-> admin_clients, sent |-> {}, fin |-> Ended(c, b, TRUE)]
       ELSE IF r.kind = "stop"
       THEN LET e == Evict(b.failed, clients, admin_clients)
            IN [pc |-> "recv", bc |-> IdleBc, clients |-> e.clients,
                admin |-> e.admin, sent |-> {}, fin |-> Ended(c, b, FALSE)]
       ELSE LET m == Send(r.key, b.msg)
            IN [pc |-> "bcast",
                bc |-> [b EXCEPT !.it = r.it,
                          !.failed = IF m.ok THEN @ ELSE Append(@, r.key),
                          !.delivered = IF m.ok THEN @ \cup {r.key} ELSE @],
                clients |-> clients, admin |-> admin_clients, sent |-> {m},
                fin |-> NoFin]

\* Another coroutine changed the keys of clients: every suspended broadcast
\* other than c's has seen its dict modified.
TouchOthers(b, c, changed) ==
    [d \in Sockets |->
        IF d # c /\ pc[d] = "bcast" /\ changed
        THEN [b[d] EXCEPT !.touched = TRUE] ELSE b[d]]

RunBroadcast(c, b) ==
    LET r == BroadcastTurn(c, b)
    IN /\ pc' = [pc EXCEPT ![c] = r.pc]
       /\ bc' = TouchOthers([bc EXCEPT ![c] = r.bc], c, Keys(r.clients) # Keys(clients))
       /\ clients' = r.clients
       /\ admin_clients' = r.admin
       /\ Sends(r.sent)
       /\ fin' = r.fin

\* (mutant) the payload read before the commit: the tables as they were
BroadcastStale(c, s, q, h) ==
    RunBroadcast(c, [msg |-> StateMsg(songs, queue, history), it |-> NewIter(clients),
                     failed |-> <<>>, delivered |-> {}, start |-> Keys(clients),
                     touched |-> FALSE])

\* broadcast_state() called with the tables s, q, h just committed
broadcast_state(c, s, q, h) ==
    RunBroadcast(c, [msg |-> StateMsg(s, q, h), it |-> NewIter(clients),
                     failed |-> <<>>, delivered |-> {}, start |-> Keys(clients),
                     touched |-> FALSE])

\* handle_message returns without a send
NoSend ==
    /\ UNCHANGED <<pc, bc, clients, admin_clients>>
    /\ Sends({})
    /\ fin' = NoFin

Event(c, action, id, str, flag, payload) ==
    [conn |-> c, action |-> action, id |-> id, str |-> str, flag |-> flag,
     songs |-> payload]

\* (mutant) a message is taken up while the previous one is still handled
ReceivesWhileBusy(c) == pc[c] \in {"recv", "bcast"} /\ sock[c] = "open"

\* the handler of c is at `async for message in websocket` and the peer, still
\* connected, sends a message
Receives(c) == pc[c] = "recv" /\ sock[c] = "open"

\* handler takes the message and calls handle_message; after the termination
\* signal at most MaxLate messages are handled before the connections close
Takes(c) ==
    /\ Receives(c)
    /\ server_instance = "closed" => late < MaxLate
    /\ late' = IF server_instance = "closed" THEN late + 1 ELSE late

\* ---- the database transactions of handle_message ------------------------
Rows(q, id) == SelectSeq(q, LAMBDA r : r.id = id)

\* (mutant) the UPDATE without its WHERE clause
VoteEveryRow(q, id, vote_type) ==
    [i \in 1 .. Len(q) |->
        IF vote_type = "up" THEN [q[i] EXCEPT !.upvotes = @ + 1]
        ELSE [q[i] EXCEPT !.downvotes = @ + 1]]

\* UPDATE queue SET upvotes = upvotes + 1 WHERE id = ?   (vote_type 'up')
\* UPDATE queue SET downvotes = downvotes + 1 WHERE id = ?   (any other)
VoteTxn(q, id, vote_type) ==
    [i \in 1 .. Len(q) |->
        IF q[i].id # id THEN q[i]
        ELSE IF vote_type = "up" THEN [q[i] EXCEPT !.upvotes = @ + 1]
        ELSE [q[i] EXCEPT !.downvotes = @ + 1]]

\* (mutant) the DELETE is left out: the entry is played and stays queued
MarkPlayedKeepsRow(q, h, id, t) ==
    IF Rows(q, id) = <<>> THEN [ok |-> FALSE, queue |-> q, history |-> h]
    ELSE [ok |-> TRUE, queue |-> q,
          history |-> Append(h, [song_id |-> Rows(q, id)[1].song_id, played_at |-> t])]

\* (mutant) a missing row is tolerated, as remove_song tolerates it
MarkPlayedLenient(q, h, id, t) ==
    IF Rows(q, id) = <<>> THEN [ok |-> TRUE, queue |-> q, history |-> h]
    ELSE [ok |-> TRUE,
          queue |-> SelectSeq(q, LAMBDA r : r.id # id),
          history |-> Append(h, [song_id |-> Rows(q, id)[1].song_id, played_at |-> t])]

\* SELECT song_id ...; fetchone()[0]; INSERT INTO history; DELETE FROM queue.
\* fetchone() is None when no row has the id and [0] raises TypeError.
MarkPlayedTxn(q, h, id, t) ==
    IF Rows(q, id) = <<>> THEN [ok |-> FALSE, queue |-> q, history |-> h]
    ELSE [ok |-> TRUE,
          queue |-> SelectSeq(q, LAMBDA r : r.id # id),
          history |-> Append(h, [song_id |-> Rows(q, id)[1].song_id, played_at |-> t])]

\* (mutant) the DELETE without its WHERE clause, as remove_all has it
RemoveEveryRow(q, id) == <<>>

\* DELETE FROM queue WHERE id = ?
RemoveSongTxn(q, id) == SelectSeq(q, LAMBDA r : r.id # id)

\* DELETE FROM queue
RemoveAllTxn(q) == <<>>

\* for song in songs: INSERT INTO songs ...; song['Name'] raises KeyError on
\* a record that lacks a key
RECURSIVE InsertSongs(_, _)
InsertSongs(tbl, payload) ==
    IF payload = <<>> THEN [ok |-> TRUE, songs |-> tbl]
    ELSE IF Head(payload) = Malformed THEN [ok |-> FALSE, songs |-> tbl]
    ELSE InsertSongs(Append(tbl, Head(payload)), Tail(payload))

\* (mutant) the DELETE FROM songs is left out
UploadAppends(s, payload) ==
    LET r == InsertSongs(s, payload)
    IN [ok |-> r.ok, songs |-> IF r.ok THEN r.songs ELSE s]

\* (mutant) a record that lacks a key is skipped and the rest is committed
UploadSkipsBad(s, payload) ==
    [ok |-> TRUE, songs |-> SelectSeq(payload, LAMBDA x : x # Malformed)]

\* DELETE FROM songs, the inserts, conn.commit(); without the commit the
\* transaction is rolled back when conn is dropped
UploadTxn(s, payload) ==
    LET r == InsertSongs(<<>>, payload)
    IN [ok |-> r.ok, songs |-> IF r.ok THEN r.songs ELSE s]

\* (mutant) the join answered with a broadcast
SendStateToAll(c, s, q, h) ==
    {Send(k, StateMsg(s, q, h)) : k \in Keys(clients) \cup {c}}

\* send_state(websocket): the state message, to websocket alone
send_state(c, s, q, h) == {Send(c, StateMsg(s, q, h))}

\* ---- the connection handler ---------------------------------------------
Quiet(c, what) ==
    /\ sent' = {}
    /\ UNCHANGED <<notified, late>>
    /\ fin' = NoFin
    /\ ev' = Event(c, what, 0, "", FALSE, <<>>)

\* websockets accepts a connection and starts handler(websocket), which
\* creates its ping task
Connect(c) ==
    /\ sock[c] = "new"
    /\ sock' = [sock EXCEPT ![c] = "open"]
    /\ pc' = [pc EXCEPT ![c] = "recv"]
    /\ ping' = [ping EXCEPT ![c] = "running"]
    /\ Quiet(c, "connect")
    /\ UNCHANGED <<dbvars, clients, admin_clients, bc, server_instance, view>>

\* the connection closes (the peer goes away, or the close task of the
\* signal handler runs); from now on a send to this websocket raises
PeerClose(c) ==
    /\ sock[c] = "open"
    /\ sock' = [sock EXCEPT ![c] = "closed"]
    /\ Quiet(c, "close")
    /\ UNCHANGED <<dbvars, clients, admin_clients, pc, bc, server_instance, view, ping>>

\* (mutant) the handler ends without cancelling its ping task
HandlerExitLeavesPing(c) ==
    /\ pc[c] = "recv"
    /\ sock[c] = "closed"
    /\ pc' = [pc EXCEPT ![c] = "done"]
    /\ UNCHANGED ping
    /\ IF c \in Keys(clients)
       THEN /\ admin_clients' = IF Info(clients, c).is_admin
                                THEN admin_clients \ {c} ELSE admin_clients
            /\ clients' = DictDel(clients, c)
       ELSE UNCHANGED <<clients, admin_clients>>
    /\ bc' = TouchOthers(bc, c, c \in Keys(clients))
    /\ Quiet(c, "exit")
    /\ view' = [view EXCEPT ![c] = NoMsg]
    /\ UNCHANGED <<dbvars, sock, server_instance>>

\* The `async for` ends; handler cancels its ping task and awaits it (a ping
\* task that has failed is done already), and the finally block cleans up.
HandlerExit(c) ==
    /\ pc[c] = "recv"
    /\ sock[c] = "closed"
    /\ pc' = [pc EXCEPT ![c] = "done"]
    /\ ping' = [ping EXCEPT ![c] = "ended"]
    /\ IF c \in Keys(clients)
       THEN /\ admin_clients' = IF Info(clients, c).is_admin
                                THEN admin_clients \ {c} ELSE admin_clients
            /\ clients' = DictDel(clients, c)
       ELSE UNCHANGED <<clients, admin_clients>>
    /\ bc' = TouchOthers(bc, c, c \in Keys(clients))
    /\ Quiet(c, "exit")
    /\ view' = [view EXCEPT ![c] = NoMsg]      \* the client is gone
    /\ UNCHANGED <<dbvars, sock, server_instance>>

\* a suspended broadcast_state resumes after its `await client.send`
Resume(c) ==
    /\ pc[c] = "bcast"
    /\ RunBroadcast(c, bc[c])
    /\ ev' = Event(c, "resume", 0, "", FALSE, <<>>)
    /\ UNCHANGED <<dbvars, sock, server_instance, late>>

\* signal_handler (SIGINT, SIGTERM): a close task is created for every
\* websocket of clients, admin_clients and clients are cleared, and
\* server_instance.close() stops accepting.  The handler only creates the
\* close tasks: each connection stays open, and its messages are handled,
\* until its task has run, which is the step PeerClose of that connection.
Signal ==
    /\ server_instance = "serving"
    /\ server_instance' = "closed"
    /\ clients' = <<>>
    /\ admin_clients' = {}
    /\ sock' = [c \in Sockets |-> IF sock[c] = "new" THEN "off" ELSE sock[c]]
    /\ bc' = TouchOthers(bc, NoSock, Keys(clients) # {})
    /\ Quiet(NoSock, "signal")
    /\ UNCHANGED <<dbvars, pc, view, ping>>

\* ping_loop, after its sleep: a ping frame goes to the peer
Ping(c) ==
    /\ ping[c] = "running"
    /\ sock[c] = "open"
    /\ NoSend
    /\ ev' = Event(c, "ping", 0, "", FALSE, <<>>)
    /\ UNCHANGED <<dbvars, sock, server_instance, late>>

\* ping_loop, after its sleep: websocket.ping() raises on the closed
\* connection; the exception is logged and raised again, which ends the task
PingFails(c) ==
    /\ ping[c] = "running"
    /\ sock[c] = "closed"
    /\ ping' = [ping EXCEPT ![c] = "ended"]
    /\ Quiet(c, "ping_failed")
    /\ UNCHANGED <<dbvars, clients, admin_clients, sock, pc, bc, server_instance, view>>

\* ---- handle_message, one action per branch ------------------------------
\* json.loads raises JSONDecodeError: logged, return
InvalidJson(c) ==
    /\ Takes(c)
    /\ NoSend
    /\ ev' = Event(c, "invalid_json", 0, "", FALSE, <<>>)
    /\ UNCHANGED <<dbvars, sock, server_instance>>

\* The message is JSON but no object (a list, a number, ...): data.get raises
\* AttributeError, which handle_message's first try does not catch; handler's
\* `except Exception` sends the 'Internal server error' reply and the loop
\* goes on.
NotAnObject(c) ==
    /\ Takes(c)
    /\ Sends({Send(c, ErrorMsg)})
    /\ fin' = NoFin
    /\ ev' = Event(c, "not_object", 0, "", FALSE, <<>>)
    /\ UNCHANGED <<dbvars, sock, pc, bc, clients, admin_clients, server_instance>>

\* (mutant) the unknown action raises out of the message loop
UnknownActionEndsLoop(c) ==
    /\ Takes(c)
    /\ pc' = [pc EXCEPT ![c] = "done"]
    /\ Sends({})
    /\ fin' = NoFin
    /\ ev' = [conn |-> c, action |-> "unknown", id |-> 0, str |-> "",
              flag |-> FALSE, songs |-> <<>>]
    /\ UNCHANGED <<dbvars, sock, bc, clients, admin_clients, server_instance>>

\* an action no branch matches
UnknownAction(c) ==
    /\ Takes(c)
    /\ NoSend
    /\ ev' = Event(c, "unknown", 0, "", FALSE, <<>>)
    /\ UNCHANGED <<dbvars, sock, server_instance>>

Join(c, user_id, is_admin) ==
    /\ Takes(c)
    /\ clients' = DictSet(clients, c, user_id, is_admin)
    /\ admin_clients' = IF is_admin THEN admin_clients \cup {c} ELSE admin_clients
    /\ Sends(send_state(c, songs, queue, history))
    /\ bc' = TouchOthers(bc, c, c \notin Keys(clients))
    /\ fin' = NoFin
    /\ ev' = Event(c, "join", 0, user_id, is_admin, <<>>)
    /\ UNCHANGED <<songs, queue, history, sock, pc, server_instance>>

\* The first request_song branch: song_id and user_id are read, a database
\* connection is opened, and the branch ends.  The second request_song
\* branch, with the INSERT and the broadcast, is never reached.
RequestSong(c, song_id) ==
    /\ Takes(c)
    /\ NoSend
    /\ ev' = Event(c, "request_song", song_id, "", FALSE, <<>>)
    /\ UNCHANGED <<dbvars, sock, server_instance>>

\* lookup_artist_images: the reply goes to the sender when artists is not empty
LookupArtistImages(c, some) ==
    /\ Takes(c)
    /\ Sends(IF some THEN {Send(c, ArtistImagesMsg)} ELSE {})
    /\ fin' = NoFin
    /\ ev' = Event(c, "lookup_artist_images", 0, "", some, <<>>)
    /\ UNCHANGED <<dbvars, sock, pc, bc, clients, admin_clients, server_instance>>

Vote(c, queue_id, vote_type) ==
    /\ Takes(c)
    /\ queue_id = Absent => vote_type = "up"
    /\ \A i \in 1 .. Len(queue) :
          queue[i].id = queue_id =>
              IF vote_type = "up" THEN queue[i].upvotes < MaxVotes
              ELSE queue[i].downvotes < MaxVotes
    /\ ev' = Event(c, "vote", queue_id, vote_type, FALSE, <<>>)
    /\ IF queue_id = Absent \/ vote_type = "absent"
       THEN NoSend /\ UNCHANGED queue
       ELSE /\ queue' = VoteTxn(queue, queue_id, vote_type)
            /\ broadcast_state(c, songs, VoteTxn(queue, queue_id, vote_type),
                               history)
    /\ UNCHANGED <<songs, history, sock, server_instance>>

\* CURRENT_TIMESTAMP never runs backwards
Clock(h) == {t \in 1 .. MaxTime : \A i \in 1 .. Len(h) : h[i].played_at <= t}

MarkPlayed(c, queue_id, t) ==
    LET r == MarkPlayedTxn(queue, history, queue_id, t)
    IN /\ Takes(c)
       /\ t \in Clock(history)
       /\ ev' = Event(c, "mark_played", queue_id, "", FALSE, <<>>)
       /\ IF c \in admin_clients /\ queue_id # Absent /\ r.ok
          THEN /\ queue' = r.queue
               /\ history' = r.history
               /\ broadcast_state(c, songs, r.queue, r.history)
          ELSE NoSend /\ UNCHANGED <<queue, history>>
       /\ UNCHANGED <<songs, sock, server_instance>>

RemoveSong(c, queue_id) ==
    /\ Takes(c)
    /\ ev' = Event(c, "remove_song", queue_id, "", FALSE, <<>>)
    /\ IF c \in admin_clients /\ queue_id # Absent
       THEN /\ queue' = RemoveSongTxn(queue, queue_id)
            /\ broadcast_state(c, songs, RemoveSongTxn(queue, queue_id), history)
       ELSE NoSend /\ UNCHANGED queue
    /\ UNCHANGED <<songs, history, sock, server_instance>>

RemoveAll(c) ==
    /\ Takes(c)
    /\ ev' = Event(c, "remove_all", 0, "", FALSE, <<>>)
    /\ IF c \in admin_clients
       THEN /\ queue' = RemoveAllTxn(queue)
            /\ broadcast_state(c, songs, RemoveAllTxn(queue), history)
       ELSE NoSend /\ UNCHANGED queue
    /\ UNCHANGED <<songs, history, sock, server_instance>>

\* present = FALSE: the message has no 'songs' field
UploadSongs(c, present, payload) ==
    LET r == UploadTxn(songs, payload)
    IN /\ Takes(c)
       /\ ~present => payload = <<>>
       /\ ev' = Event(c, "upload_songs", IF present THEN 0 ELSE Absent, "", FALSE, payload)
       /\ IF c \in admin_clients /\ present /\ r.ok
          THEN /\ songs' = r.songs
               /\ broadcast_state(c, r.songs, queue, history)
          ELSE NoSend /\ UNCHANGED songs
       /\ UNCHANGED <<queue, history, sock, server_instance>>

\* (mutant) the order asked for is stored: the rows are written back reversed
SortQueuePersists(c, sort_type) ==
    /\ Takes(c)
    /\ ev' = [conn |-> c, action |-> "sort_queue", id |-> 0, str |-> sort_type,
              flag |-> FALSE, songs |-> <<>>]
    /\ IF sort_type = "absent"
       THEN NoSend /\ UNCHANGED queue
       ELSE /\ queue' = [i \in 1 .. Len(queue) |-> queue[Len(queue) + 1 - i]]
            /\ RunBroadcast(c, [msg |-> StateMsg(songs, queue, history),
                                it |-> NewIter(clients), failed |-> <<>>,
                                delivered |-> {}, start |-> Keys(clients),
                                touched |-> FALSE])
    /\ UNCHANGED <<songs, history, sock, server_instance>>

\* the four SELECTs read the table and their result is dropped
SortQueue(c, sort_type) ==
    /\ Takes(c)
    /\ ev' = Event(c, "sort_queue", 0, sort_type, FALSE, <<>>)
    /\ IF sort_type = "absent"
       THEN NoSend
       ELSE broadcast_state(c, songs, queue, history)
    /\ UNCHANGED <<dbvars, sock, server_instance>>

\* ---- the specification --------------------------------------------------
\* init_db() creates the tables only if rhythmcrew.db lacks them, so the
\* server starts on the rows the file already holds.  A run starts either on
\* a file that holds a catalog and MaxQueue requests, with one client, or on
\* a fresh file, with NumConns clients: stored requests and concurrent
\* connections are explored apart.
InitRow(i, t) ==
    [id |-> i, song_id |-> 1, user_id |-> "u0", upvotes |-> 0,
     downvotes |-> 0, requested_at |-> t]

StoredQueues ==
    {[i \in 1 .. MaxQueue |-> InitRow(i, f[i])] : f \in [1 .. MaxQueue -> 0 .. 1]}

Init ==
    /\ \/ /\ songs = <<"A">>
          /\ queue \in StoredQueues
          /\ sock = [c \in Sockets |-> IF c = 1 THEN "new" ELSE "off"]
       \/ /\ songs = <<>>
          /\ queue = <<>>
          /\ sock = [c \in Sockets |-> "new"]
    /\ history = <<>>
    /\ clients = <<>>
    /\ admin_clients = {}
    /\ pc = [c \in Sockets |-> "none"]
    /\ bc = [c \in Sockets |-> IdleBc]
    /\ sent = {}
    /\ fin = NoFin
    /\ ev = NoEv
    /\ server_instance = "serving"
    /\ view = [c \in Sockets |-> NoMsg]
    /\ notified = {}
    /\ late = 0
    /\ ping = [c \in Sockets |-> "none"]

Next ==
    \/ \E c \in Sockets : Connect(c)
    \/ \E c \in Sockets : PeerClose(c)
    \/ \E c \in Sockets : HandlerExit(c)
    \/ \E c \in Sockets : Resume(c)
    \/ Signal
    \/ \E c \in Sockets : InvalidJson(c)
    \/ \E c \in Sockets : NotAnObject(c)
    \/ \E c \in Sockets : UnknownAction(c)
    \/ \E c \in Sockets, u \in UserIds, a \in BOOLEAN : Join(c, u, a)
    \/ \E c \in Sockets, s \in {Absent, 1} : RequestSong(c, s)
    \/ \E c \in Sockets, some \in BOOLEAN : LookupArtistImages(c, some)
    \/ \E c \in Sockets, id \in {Absent} \cup (1 .. MaxQueue), v \in VoteTypes :
          Vote(c, id, v)
    \/ \E c \in Sockets, id \in {Absent} \cup (1 .. MaxQueue), t \in 1 .. MaxTime :
          MarkPlayed(c, id, t)
    \/ \E c \in Sockets, id \in {Absent} \cup (1 .. MaxQueue) : RemoveSong(c, id)
    \/ \E c \in Sockets : RemoveAll(c)
    \/ \E c \in Sockets, present \in BOOLEAN,
          p \in SeqsUpTo(Uploadable \cup {Malformed}, MaxUpload) :
          UploadSongs(c, present, p)
    \/ \E c \in Sockets, s \in SortTypes : SortQueue(c, s)

Spec == Init /\ [][Next]_vars

\* The heartbeat runs beside the handlers.  Its steps are explored with the
\* connections' life cycle, the signal, and the events join and vote.
HeartbeatNext ==
    \/ \E c \in Sockets : Connect(c)
    \/ \E c \in Sockets : PeerClose(c)
    \/ \E c \in Sockets : HandlerExit(c)
    \/ \E c \in Sockets : Resume(c)
    \/ Signal
    \/ \E c \in Sockets : Ping(c)
    \/ \E c \in Sockets : PingFails(c)
    \/ \E c \in Sockets, u \in UserIds, a \in BOOLEAN : Join(c, u, a)
    \/ \E c \in Sockets, id \in 1 .. MaxQueue, v \in {"up"} : Vote(c, id, v)

HeartbeatSpec == Init /\ [][HeartbeatNext]_vars

\* Uploads of up to MaxRecords records, a record lacking a key at any place
\* among them, by the connections of Init.
UploadNext ==
    \/ \E c \in Sockets : Connect(c)
    \/ \E c \in Sockets : Resume(c)
    \/ \E c \in Sockets, u \in UserIds, a \in BOOLEAN : Join(c, u, a)
    \/ \E c \in Sockets, p \in SeqsUpTo(Uploadable \cup {Malformed}, MaxRecords) :
          UploadSongs(c, TRUE, p)

UploadSpec == Init /\ [][UploadNext]_vars

\* A file that holds two songs and MaxPlays requests, for the two in turn,
\* and one client, which plays or removes the request at the head of the
\* table.
HistoryInit ==
    /\ songs = <<"A", "B">>
    /\ queue = [i \in 1 .. MaxPlays |-> [InitRow(i, 0) EXCEPT !.song_id = 1 + (i % 2)]]
    /\ sock = [c \in Sockets |-> IF c = 1 THEN "new" ELSE "off"]
    /\ history = <<>>
    /\ clients = <<>>
    /\ admin_clients = {}
    /\ pc = [c \in Sockets |-> "none"]
    /\ bc = [c \in Sockets |-> IdleBc]
    /\ sent = {}
    /\ fin = NoFin
    /\ ev = NoEv
    /\ server_instance = "serving"
    /\ view = [c \in Sockets |-> NoMsg]
    /\ notified = {}
    /\ late = 0
    /\ ping = [c \in Sockets |-> "none"]

\* the id of the first row of the table q, if it has one
HeadIds(q) == {q[i].id : i \in {j \in {1} : j <= Len(q)}}

HistoryNext ==
    \/ \E c \in Sockets : Connect(c)
    \/ \E c \in Sockets : Resume(c)
    \/ \E c \in Sockets, u \in UserIds, a \in BOOLEAN : Join(c, u, a)
    \/ \E c \in Sockets, id \in HeadIds(queue), t \in 1 .. MaxTime :
          MarkPlayed(c, id, t)
    \/ \E c \in Sockets, id \in HeadIds(queue) : RemoveSong(c, id)

HistorySpec == HistoryInit /\ [][HistoryNext]_vars

\* ---- properties ---------------------------------------------------------
Joined(c) == c \in Keys(clients)
\* the connection is in the privileged subset of the Roster
Privileged(c) == c \in Keys(clients) /\ Info(clients, c).is_admin
\* the last step handled the event `action` (ev is set by every step)
Handled(action) == ev'.action = action
WellFormed(payload) == \A i \in 1 .. Len(payload) : payload[i] # Malformed
\* broadcast_state was called by c in this step, with message m
Broadcasts(c, m) ==
    \/ pc'[c] = "bcast" /\ bc'[c].msg = m /\ sent' # {} /\ \A x \in sent' : x.msg = m
    \/ Keys(clients) = {} /\ fin'.by = c /\ pc[c] = "recv"
NoBroadcast == sent' = {} /\ fin' = NoFin /\ pc' = pc /\ bc' = bc

\* C1: request_song from a joined connection, for a song of the catalog,
\* appends one queue entry (that song, the sender's user id, no votes) and
\* broadcasts the new state.
C1_RequestAppendsEntry ==
    [][Handled("request_song") /\ Joined(ev'.conn) /\ ev'.id \in 1 .. Len(songs)
        => /\ Len(queue') = Len(queue) + 1
           /\ SubSeq(queue', 1, Len(queue)) = queue
           /\ queue'[Len(queue')].song_id = ev'.id
           /\ queue'[Len(queue')].user_id = Info(clients, ev'.conn).user_id
           /\ queue'[Len(queue')].upvotes = 0
           /\ queue'[Len(queue')].downvotes = 0
           /\ Broadcasts(ev'.conn, StateMsg(songs', queue', history'))]_vars

\* C2: mark_played, remove_song, remove_all and upload_songs from a
\* connection outside the privileged subset of the Roster change no table
\* and send nothing.
C2_UnprivilegedIgnored ==
    [][(ev'.action \in {"mark_played", "remove_song", "remove_all", "upload_songs"}
        /\ ~Privileged(ev'.conn))
        => UNCHANGED dbvars /\ NoBroadcast]_vars

\* C3: a vote 'up' adds one to the upvotes of the entry it names, a vote
\* 'down' adds one to its downvotes, and nothing else changes a counter of an
\* entry that stays in the queue; the counters are never negative and never
\* decrease.
C3_VotesCounted ==
    [][\A i \in 1 .. Len(queue) : \A j \in 1 .. Len(queue') :
          queue[i].id = queue'[j].id =>
            LET voted == Handled("vote") /\ ev'.id = queue[i].id
                up == queue'[j].upvotes - queue[i].upvotes
                down == queue'[j].downvotes - queue[i].downvotes
            IN /\ queue[i].upvotes >= 0 /\ queue[i].downvotes >= 0
               /\ up >= 0 /\ down >= 0
               /\ voted /\ ev'.str = "up" => up = 1 /\ down = 0
               /\ voted /\ ev'.str = "down" => up = 0 /\ down = 1
               /\ ~voted => up = 0 /\ down = 0]_vars

C3_Witness ==
    /\ ev.action = "vote" /\ ev.str = "down" /\ ev.id = 2
    /\ Len(queue) = 2
    /\ queue[1].upvotes = 1 /\ queue[1].downvotes = 0
    /\ queue[2].upvotes = 0 /\ queue[2].downvotes = 1

\* C4: the queue of every state message sent is ordered by upvotes, highest
\* first, and by requested_at, earliest first, among equal upvotes; the
\* downvotes have no part in the order.
Ordered(q) ==
    \A i \in 1 .. Len(q) : \A j \in i + 1 .. Len(q) :
        \/ q[i].upvotes > q[j].upvotes
        \/ q[i].upvotes = q[j].upvotes /\ q[i].requested_at <= q[j].requested_at
Ids(q) == [i \in 1 .. Len(q) |-> q[i].id]
NoDownvotes(q) == [i \in 1 .. Len(q) |-> [q[i] EXCEPT !.downvotes = 0]]

C4_QueueOrdered ==
    /\ \A m \in sent : m.msg.action = "state" => Ordered(m.msg.queue)
    /\ \A c \in Sockets : Ordered(bc[c].msg.queue)
    /\ Ids(RenderQueue(songs, queue)) = Ids(RenderQueue(songs, NoDownvotes(queue)))

C4_Witness ==
    \E m \in sent :
        /\ m.msg.action = "state"
        /\ Len(m.msg.queue) = 2
        /\ m.msg.queue[1].id = 2
        /\ m.msg.queue[1].upvotes = m.msg.queue[2].upvotes
        /\ m.msg.queue[1].downvotes > m.msg.queue[2].downvotes

\* C5: a broadcast during which no other coroutine changed the Roster ends
\* normally with every member of the Roster sent the message once, the
\* recipients whose send failed removed from the Roster; and a broadcast
\* sends to members of the Roster only.
C5_FailedSendEvicted ==
    /\ [](fin.by # NoSock /\ ~fin.touched =>
            /\ ~fin.error
            /\ fin.delivered \cup Range(fin.failed) = fin.start
            /\ fin.delivered \cap Range(fin.failed) = {}
            /\ Len(fin.failed) = Cardinality(Range(fin.failed))
            /\ Range(fin.failed) \cap Keys(clients) = {})
    /\ [][\A m \in sent' : ev'.action # "join" /\ m.msg.action = "state"
            => m.to \in Keys(clients)]_vars

C5_Witness ==
    /\ fin.by # NoSock /\ ~fin.touched
    /\ fin.failed # <<>>
    /\ fin.delivered # {}

\* C6: a broadcast ends with its message sent to every connection that was
\* in the Roster when it began and is there when it ends, whatever other
\* coroutines did to the Roster meanwhile.
C6_BroadcastReachesRemaining ==
    fin.by # NoSock =>
        (fin.start \cap Keys(clients)) \subseteq (fin.delivered \cup Range(fin.failed))

\* C7: upload_songs from a privileged connection, with a list of well-formed
\* records, leaves in the catalog the uploaded records and no other, and
\* broadcasts the new state.
C7_UploadReplacesCatalog ==
    [][(Handled("upload_songs") /\ Privileged(ev'.conn)
        /\ ev'.id # Absent /\ WellFormed(ev'.songs))
        => /\ songs' = ev'.songs
           /\ UNCHANGED <<queue, history>>
           /\ Broadcasts(ev'.conn, StateMsg(ev'.songs, queue, history))]_vars

C7_Witness ==
    /\ ev.action = "upload_songs" /\ ev.songs = <<"B">>
    /\ Privileged(ev.conn)
    /\ songs = <<"B">>
    /\ queue # <<>>
    /\ \E m \in sent : m.msg.songs = RenderSongs(<<"B">>)

\* C8: mark_played from a privileged connection, naming an entry of the
\* queue, takes that entry out of the queue and appends one history record
\* with its song id, in the same step; the other entries are untouched; no
\* entry is ever both queued and played.
C8_MarkPlayedMoves ==
    /\ [][Handled("mark_played") /\ Privileged(ev'.conn) /\ Rows(queue, ev'.id) # <<>>
            => /\ queue' = SelectSeq(queue, LAMBDA r : r.id # ev'.id)
               /\ Len(queue') = Len(queue) - 1
               /\ Len(history') = Len(history) + 1
               /\ SubSeq(history', 1, Len(history)) = history
               /\ history'[Len(history')].song_id = Rows(queue, ev'.id)[1].song_id]_vars
    /\ [](Len(queue) + Len(history) <= MaxQueue)

C8_Witness ==
    /\ ev.action = "mark_played" /\ ev.id = 1
    /\ Privileged(ev.conn)
    /\ Len(history) = 1 /\ history[1].song_id = 1
    /\ Len(queue) = 1 /\ queue[1].id = 2 /\ queue[1].upvotes = 1
    /\ sent # {}

\* C9: mark_played naming an id that no entry of the queue has changes
\* neither queue nor history and sends nothing, whoever sends it.
C9_MarkPlayedUnknownId ==
    [][Handled("mark_played") /\ ev'.id # Absent /\ Rows(queue, ev'.id) = <<>>
        => UNCHANGED <<queue, history>> /\ NoBroadcast]_vars

C9_Witness ==
    /\ ev.action = "mark_played" /\ ev.id = 1
    /\ Privileged(ev.conn)
    /\ Len(history) = 1
    /\ Rows(queue, 1) = <<>>
    /\ sent = {}

\* C10: join puts the sender into the Roster and sends the current state to
\* the sender and to no one else; the tables are unchanged.
C10_JoinPrivateSnapshot ==
    [][Handled("join")
        => /\ Keys(clients') = Keys(clients) \cup {ev'.conn}
           /\ Info(clients', ev'.conn).is_admin = ev'.flag
           /\ \E m \in sent' : sent' = {m} /\ m.to = ev'.conn
                                /\ m.msg = StateMsg(songs, queue, history)
           /\ UNCHANGED dbvars
           /\ pc' = pc]_vars

C10_Witness ==
    /\ ev.action = "join"
    /\ Cardinality(Keys(clients)) = 2
    /\ \E m \in sent : m.to = ev.conn /\ m.ok

\* the events handle_message is called with
EventActions ==
    {"invalid_json", "not_object", "unknown", "join", "request_song",
     "lookup_artist_images", "vote", "mark_played", "remove_song",
     "remove_all", "upload_songs", "sort_queue"}

\* broadcast_state was called by c in this step
BroadcastCalled(c) == pc[c] = "recv" /\ (pc'[c] = "bcast" \/ fin'.by = c)

\* the event e is no JSON, no object, names no known action, or lacks a field
\* its branch reads
MalformedEvent(e) ==
    \/ e.action \in {"invalid_json", "not_object", "unknown"}
    \/ e.action \in {"request_song", "vote", "mark_played", "remove_song"}
          /\ e.id = Absent
    \/ e.action = "vote" /\ e.str = "absent"
    \/ e.action = "upload_songs" /\ (e.id = Absent \/ ~WellFormed(e.songs))
    \/ e.action = "sort_queue" /\ e.str = "absent"

\* C11: an event other than join is answered with a broadcast exactly when it
\* changed the queue, the catalog or the history.
C11_BroadcastIffChanged ==
    [][ev'.action \in EventActions \ {"join"}
        => (BroadcastCalled(ev'.conn) <=> dbvars' # dbvars)]_vars

\* C12: every malformed or unknown event is answered with an error message
\* to its sender.
C12_MalformedGetsError ==
    [][MalformedEvent(ev')
        => \E m \in sent' : m.to = ev'.conn /\ m.msg = ErrorMsg]_vars

\* C13: a malformed or unknown event changes no table and not the Roster,
\* starts no broadcast and sends no state message, and leaves the handler of
\* its connection at the message loop, ready for the next event.
C13_MalformedHarmless ==
    [][MalformedEvent(ev')
        => /\ UNCHANGED <<dbvars, clients, admin_clients>>
           /\ ~BroadcastCalled(ev'.conn)
           /\ \A m \in sent' : m.msg.action # "state"
           /\ pc'[ev'.conn] = "recv" /\ sock'[ev'.conn] = "open"]_vars

C13_Witness ==
    /\ ev.action = "upload_songs" /\ ~WellFormed(ev.songs)
    /\ ev.conn \in admin_clients
    /\ songs # <<>>
    /\ pc[ev.conn] = "recv" /\ sock[ev.conn] = "open"

\* C14: a vote naming an id no entry of the queue has changes no counter and
\* is answered with an error message to the caller.
C14_UnknownVoteReported ==
    [][(Handled("vote") /\ ev'.id # Absent /\ ev'.str \in {"up", "down"}
        /\ Rows(queue, ev'.id) = <<>>)
        => /\ queue' = queue
           /\ \E m \in sent' : m.to = ev'.conn /\ m.msg = ErrorMsg]_vars

\* C15: when a termination signal closes the connections and clears the
\* Roster, every member of the Roster has been sent the server_shutdown
\* notice.
C15_ShutdownNoticeFirst ==
    [][Handled("signal") => Keys(clients) \subseteq notified]_vars

\* C16: whenever no broadcast is in progress, every connected member of the
\* Roster holds, as the last state message delivered to it, the current
\* state.
C16_ViewsConsistent ==
    (\A c \in Sockets : pc[c] # "bcast") =>
        \A k \in Keys(clients) :
            sock[k] = "open" => view[k] = StateMsg(songs, queue, history)

\* C17: admin_clients is the set of members of the Roster whose recorded
\* is_admin flag is true.
C17_PrivilegedSetExact ==
    admin_clients = {k \in Keys(clients) : Info(clients, k).is_admin}

\* C18: every entry the queue presented before an upload_songs is presented
\* after it, with the same song.
C18_UploadKeepsRequests ==
    [][Handled("upload_songs")
        => LET before == RenderQueue(songs, queue)
               after == RenderQueue(songs', queue')
           IN \A i \in 1 .. Len(before) : \E j \in 1 .. Len(after) :
                 after[j].id = before[i].id /\ after[j].name = before[i].name]_vars

\* C19: the message of a broadcast is the state of the tables at the end of
\* the step that called broadcast_state, the step that committed the event's
\* mutation; the message is not changed while the broadcast is under way.
C19_BroadcastCommittedState ==
    [][\A c \in Sockets :
          /\ BroadcastCalled(c) =>
                /\ pc'[c] = "bcast" => bc'[c].msg = StateMsg(songs', queue', history')
                /\ \A m \in sent' : m.msg = StateMsg(songs', queue', history')
          /\ pc[c] = "bcast" /\ pc'[c] = "bcast" => bc'[c].msg = bc[c].msg
          /\ (pc[c] = "bcast" /\ ev'.conn = c /\ ev'.action = "resume")
                => \A m \in sent' : m.msg = bc[c].msg]_vars

C19_Witness ==
    /\ ev.action = "mark_played"
    /\ pc[ev.conn] = "bcast"
    /\ history # <<>>
    /\ bc[ev.conn].msg = StateMsg(songs, queue, history)
    /\ \E m \in sent : m.ok /\ m.msg.history # <<>>

\* C20: while the broadcast an event of a connection triggered is under way,
\* no further event of that connection is handled.
C20_OneEventAtATime ==
    [][\A c \in Sockets :
          pc[c] = "bcast" => ~(ev'.conn = c /\ ev'.action \in EventActions)]_vars

C20_Witness ==
    \E c \in Sockets :
        /\ pc[c] = "bcast" /\ sock[c] = "open"
        /\ ev.conn = c /\ ev.action = "vote"

\* C22: a vote whose vote_type is neither 'up' nor 'down' changes no counter
\* of any entry.
C22_OtherVoteNoEffect ==
    [][(Handled("vote") /\ ev'.str \notin {"up", "down"}) => queue' = queue]_vars

\* C23: sort_queue, with any sort type, changes no table, and the state
\* message that follows it carries the canonical rendering of the tables.
C23_SortChangesNothing ==
    [][Handled("sort_queue")
        => /\ UNCHANGED dbvars
           /\ \A m \in sent' : m.msg = StateMsg(songs, queue, history)
           /\ pc'[ev'.conn] = "bcast"
                => bc'[ev'.conn].msg = StateMsg(songs, queue, history)]_vars

C23_Witness ==
    /\ ev.action = "sort_queue" /\ ev.str = "random"
    /\ \E m \in sent : /\ m.ok
                        /\ Len(m.msg.queue) = 2
                        /\ m.msg.queue[1].id = 2

\* C24: remove_song from a privileged connection, naming an entry of the
\* queue, deletes that entry and no other, and leaves the other entries, the
\* history and the catalog as they were.
C24_RemoveSongExact ==
    [][(Handled("remove_song") /\ Privileged(ev'.conn) /\ Rows(queue, ev'.id) # <<>>)
        => /\ queue' = SelectSeq(queue, LAMBDA r : r.id # ev'.id)
           /\ Len(queue') = Len(queue) - 1
           /\ UNCHANGED <<songs, history>>]_vars

C24_Witness ==
    /\ ev.action = "remove_song" /\ ev.id = 1
    /\ Privileged(ev.conn)
    /\ Len(queue) = 1 /\ queue[1].id = 2 /\ queue[1].upvotes = 1
    /\ history = <<>>
    /\ sent # {}

\* the steps of a ping task
PingSteps == {"ping", "ping_failed"}

\* C26: a step of the heartbeat changes no table, not the Roster and not
\* the privileged set; when a handler has finished its ping task has ended
\* and takes no step.
C26_HeartbeatHarmless ==
    /\ [][ev'.action \in PingSteps
            => UNCHANGED <<dbvars, clients, admin_clients>>]_vars
    /\ [](\A c \in Sockets : pc[c] = "done" => ping[c] = "ended")
    /\ [][\A c \in Sockets :
            pc[c] = "done" => ~(ev'.conn = c /\ ev'.action \in PingSteps)]_vars

C26_Witness ==
    /\ ev.action = "ping"
    /\ pc[ev.conn] = "bcast"
    /\ \E c \in Sockets : pc[c] = "done" /\ ping[c] = "ended"

\* C27: a connection whose handler has finished is not in the Roster, and a
\* member of the Roster whose connection stays open stays in the Roster.
C27_RosterMirrorsOpen ==
    /\ [](\A c \in Sockets : pc[c] = "done" => c \notin Keys(clients))
    /\ [][\A c \in Sockets :
            (c \in Keys(clients) /\ sock'[c] = "open") => c \in Keys(clients')]_vars

\* C21: upload_songs from a privileged connection, with a list in which some
\* record lacks a key, leaves the catalog as it was and sends nothing.
C21_BadUploadRolledBack ==
    [][(Handled("upload_songs") /\ Privileged(ev'.conn)
        /\ ev'.id # Absent /\ ~WellFormed(ev'.songs))
        => /\ UNCHANGED dbvars
           /\ ~BroadcastCalled(ev'.conn)
           /\ sent' = {}]_vars

C21_Witness ==
    /\ ev.action = "upload_songs"
    /\ Len(ev.songs) = 3 /\ ev.songs[1] = "B" /\ ev.songs[3] = Malformed
    /\ Privileged(ev.conn)
    /\ songs = <<"A">>
    /\ sent = {}

\* C25: the history of the state message that follows a mark_played holds at
\* most HistoryLimit records, the plays of the history table from the latest
\* backwards, the song just played first.
C25_HistoryNewestFirst ==
    [][(Handled("mark_played") /\ history' # history)
        => LET shown == RenderHistory(songs', history')
               n == Len(history')
           IN /\ Len(shown) <= HistoryLimit
              /\ Len(shown) = IF n < HistoryLimit THEN n ELSE HistoryLimit
              /\ \A i \in 1 .. Len(shown) :
                    shown[i].name = songs'[history'[n + 1 - i].song_id]]_vars
====
